---------------------------- MODULE Spec2Model ----------------------------
(***************************************************************************)
(* Writing assistant: the two generation wrappers of generative_model.py   *)
(* (fix_sentence, predict_suggestions) and the Streamlit script of app.py  *)
(* (main and its callbacks give_suggestions and update_text).              *)
(*                                                                         *)
(* A Python str is a sequence of one-character strings, so that the        *)
(* regular expressions, str.replace, str.format and str.join are computed  *)
(* character by character.  The pretrained models, their tokenizers and    *)
(* the iteration order of a Python set are outside the repository: each is *)
(* a choice among the outcomes it can produce.                             *)
(*                                                                         *)
(* Two specifications: Spec is the Streamlit session (one widget event,    *)
(* then one run of main); FnSpec calls the two wrappers directly with      *)
(* arguments the user interface never passes ("s", "g", unknown tasks).    *)
(***************************************************************************)
EXTENDS Integers, Sequences, FiniteSets, TLC

VARIABLES
    device,                         \* app.py 46-51
    site_reloads,                   \* st.session_state.site_reloads
    text,                           \* st.session_state.text (the text area, key="text")
    suggest_token,                  \* st.session_state.suggest_token
    last_suggestions,               \* st.session_state.last_suggestions
    task,                           \* sidebar selectbox "Task"
    decoding_strategy_processing,   \* sidebar selectbox "Decoding Strategy"
    max_length_processing,          \* sidebar slider "Max sentence length"
    decoding_strategy_suggestions,  \* sidebar selectbox for suggestions
    num_token_suggestions,          \* sidebar slider "Max token suggestions"
    token_suggestion_qty,           \* sidebar slider "Words per suggestion"
    event,                          \* the widget event the due run answers
    replace_button,                 \* args of the rendered "Replace text" button, or None
    suggestion_buttons,             \* the rendered suggestion buttons: label and args
    processed_text,                 \* main's local processed_text in the latest run, or None
    pc,                             \* "rerun": a run of main is due; "idle": the run ended
    run_status,                     \* how the latest run of main ended
    fixCall,                        \* the fix_sentence call of the latest run, or None
    sugCall,                        \* the predict_suggestions call of the latest run, or None
    suggested_for                   \* the arguments last_suggestions was returned for

vars ==
    <<device, site_reloads, text, suggest_token, last_suggestions, task,
      decoding_strategy_processing, max_length_processing,
      decoding_strategy_suggestions, num_token_suggestions, token_suggestion_qty,
      event, replace_button, suggestion_buttons, processed_text, pc, run_status,
      fixCall, sugCall, suggested_for>>

session_vars == <<site_reloads, text, suggest_token, last_suggestions>>

widget_vars ==
    <<task, decoding_strategy_processing, max_length_processing,
      decoding_strategy_suggestions, num_token_suggestions, token_suggestion_qty>>

page_vars == <<replace_button, suggestion_buttons, processed_text, run_status>>

\* An optional value: Python's None, or a value v held as Some(v).
None == <<>>

Some(v) == <<v>>

Value(o) == o[1]

\* The exception field of a call that returned.
NoException == "None"

(***************************************************************************)
(* String literals of the source.                                          *)
(***************************************************************************)
DefaultText ==
    <<"T", "a", "l", "k", " ", "l", "i", "k", "e", " ", "Y", "o", "d", "a", " ", "I", " ",
    "w", "i", "l", "l", ".", " ", "V", "e", "r", "y", " ", "w", "i", "s", "e", " ", "h",
    "e", " ", "w", "a", "s", ".", " ", "S", "t", "r", "o", "n", "g", " ", "w", "i", "t",
    "h", " ", "t", "h", "e", " ", "f", "o", "r", "c", "e", " ", "h", "e", " ", "w", "a",
    "s", ".">>

GrammarTemplate ==
    <<"F", "i", "x", " ", "t", "h", "e", " ", "g", "r", "a", "m", "m", "a", "r", ":", " ",
    "{", "t", "e", "x", "t", "}">>

CoherentTemplate ==
    <<"M", "a", "k", "e", " ", "t", "h", "i", "s", " ", "t", "e", "x", "t", " ", "c", "o",
    "h", "e", "r", "e", "n", "t", ":", " ", "{", "t", "e", "x", "t", "}">>

SimplerTemplate ==
    <<"R", "e", "w", "r", "i", "t", "e", " ", "t", "o", " ", "m", "a", "k", "e", " ", "t",
    "h", "i", "s", " ", "e", "a", "s", "i", "e", "r", " ", "t", "o", " ", "u", "n", "d",
    "e", "r", "s", "t", "a", "n", "d", ":", " ", "{", "t", "e", "x", "t", "}">>

ParaphraseTemplate ==
    <<"P", "a", "r", "a", "p", "h", "r", "a", "s", "e", " ", "t", "h", "i", "s", ":", " ",
    "{", "t", "e", "x", "t", "}">>

FormalTemplate ==
    <<"W", "r", "i", "t", "e", " ", "t", "h", "i", "s", " ", "m", "o", "r", "e", " ", "f",
    "o", "r", "m", "a", "l", "l", "y", ":", " ", "{", "t", "e", "x", "t", "}">>

NeutralTemplate ==
    <<"W", "r", "i", "t", "e", " ", "i", "n", " ", "a", " ", "m", "o", "r", "e", " ", "n",
    "e", "u", "t", "r", "a", "l", " ", "w", "a", "y", ":", " ", "{", "t", "e", "x", "t",
    "}">>

TextField ==
    <<"{", "t", "e", "x", "t", "}">>

GeneratedMarker ==
    <<"G", "e", "n", "e", "r", "a", "t", "e", "d", ":", " ">>

GeneratedWord ==
    <<"g", "e", "n", "e", "r", "a", "t", "e", "d">>

SuggestInstruction ==
    <<"C", "o", "m", "p", "l", "e", "t", "e", " ", "t", "h", "e", " ", "s", "e", "n", "t",
    "e", "n", "c", "e", "s", " ", "k", "e", "e", "p", "i", "n", "g", " ", "t", "h", "e",
    " ", "c", "o", "n", "t", "e", "x", "t", " ", "i", "n", "t", "a", "c", "t", ":", " ">>

TextABC ==
    <<"A", ".", " ", "B", ".", " ", "C">>

TextDecimal ==
    <<"3", ".", "5", " ", "i", "s", " ", "a", " ", "n", "u", "m", "b", "e", "r", ".">>

TextSchool ==
    <<"H", "e", " ", "g", "o", " ", "t", "o", " ", "s", "c", "h", "o", "o", "l", ".">>

TextTrailing ==
    <<"H", "i", ".", " ">>

OutOk ==
    <<"O", "k", ".">>

SuffixA ==
    <<" ", "a">>

(***************************************************************************)
(* Python string operations.                                               *)
(***************************************************************************)
Whitespace == {" ", "\t", "\n", "\r", "\f"}

UpperCase ==
    <<"A", "B", "C", "D", "E", "F", "G", "H", "I", "J", "K", "L", "M", "N", "O", "P", "Q",
      "R", "S", "T", "U", "V", "W", "X", "Y", "Z">>

LowerCase ==
    <<"a", "b", "c", "d", "e", "f", "g", "h", "i", "j", "k", "l", "m", "n", "o", "p", "q",
      "r", "s", "t", "u", "v", "w", "x", "y", "z">>

\* str.lower() of one character: what flags=re.I compares.
Lower(c) ==
    IF \E i \in 1..Len(UpperCase) : UpperCase[i] = c
    THEN LowerCase[CHOOSE i \in 1..Len(UpperCase) : UpperCase[i] = c]
    ELSE c

Range(s) == {s[i] : i \in 1..Len(s)}

\* old occurs in s at index i.
MatchAt(s, old, i) ==
    /\ i + Len(old) - 1 <= Len(s)
    /\ SubSeq(s, i, i + Len(old) - 1) = old

RECURSIVE str_find(_, _, _)
\* s.find(old, i): the first index at or after i where old occurs, 0 when none.
str_find(s, old, i) ==
    IF i + Len(old) - 1 > Len(s) THEN 0
    ELSE IF MatchAt(s, old, i) THEN i
    ELSE str_find(s, old, i + 1)

RECURSIVE str_replace_from(_, _, _, _)
str_replace_from(s, old, new, i) ==
    LET at == str_find(s, old, i)
    IN  IF at = 0 THEN SubSeq(s, i, Len(s))
        ELSE SubSeq(s, i, at - 1) \o new \o str_replace_from(s, old, new, at + Len(old))

\* s.replace(old, new) for a non-empty old: every non-overlapping occurrence,
\* leftmost first.
str_replace(s, old, new) == str_replace_from(s, old, new, 1)

\* template.format(text=value) for a template whose only field is {text}.
str_format(template, value) == str_replace(template, TextField, value)

RECURSIVE str_join(_, _)
\* sep.join(list)
str_join(sep, list) ==
    IF list = <<>> THEN <<>>
    ELSE IF Len(list) = 1 THEN list[1]
    ELSE list[1] \o sep \o str_join(sep, Tail(list))

\* r"\.\s" matches at i: a period followed by one whitespace character.
SentenceBoundaryAt(s, i) ==
    /\ i + 1 <= Len(s)
    /\ s[i] = "."
    /\ s[i + 1] \in Whitespace

RECURSIVE re_split_from(_, _, _)
re_split_from(s, start, i) ==
    IF i > Len(s) THEN <<SubSeq(s, start, Len(s))>>
    ELSE IF SentenceBoundaryAt(s, i)
         THEN <<SubSeq(s, start, i - 1)>> \o re_split_from(s, i + 2, i + 2)
         ELSE re_split_from(s, start, i + 1)

\* A variant, the split on r"\.\s?": the period alone is a boundary too.
re_split_on_period(s) ==
    LET After(i) == IF i + 1 <= Len(s) /\ s[i + 1] \in Whitespace THEN i + 2 ELSE i + 1
        RECURSIVE from(_, _)
        from(start, i) ==
            IF i > Len(s) THEN <<SubSeq(s, start, Len(s))>>
            ELSE IF s[i] = "."
                 THEN <<SubSeq(s, start, i - 1)>> \o from(After(i), After(i))
                 ELSE from(start, i + 1)
    IN  from(1, 1)

\* re.split(r"\.\s", s)
re_split(s) == re_split_from(s, 1, 1)

\* Length of the match of r"generated.\s?" (flags=re.I) at index i, 0 when there is
\* none: the word in any case, one character other than a newline, then greedily
\* one optional whitespace character.
GeneratedMatchLen(s, i) ==
    IF /\ i + Len(GeneratedWord) <= Len(s)
       /\ \A k \in 1..Len(GeneratedWord) : Lower(s[i + k - 1]) = GeneratedWord[k]
       /\ s[i + Len(GeneratedWord)] # "\n"
    THEN IF /\ i + Len(GeneratedWord) + 1 <= Len(s)
            /\ s[i + Len(GeneratedWord) + 1] \in Whitespace
         THEN Len(GeneratedWord) + 2
         ELSE Len(GeneratedWord) + 1
    ELSE 0

RECURSIVE re_sub_from(_, _)
re_sub_from(s, i) ==
    IF i > Len(s) THEN <<>>
    ELSE IF GeneratedMatchLen(s, i) > 0
         THEN re_sub_from(s, i + GeneratedMatchLen(s, i))
         ELSE <<s[i]>> \o re_sub_from(s, i + 1)

\* re.sub(r"generated.\s?", "", s, flags=re.I)
re_sub(s) == re_sub_from(s, 1)

\* s begins with "generated" in any case (followed by optional whitespace).
BeginsWithGenerated(s) ==
    /\ Len(s) >= Len(GeneratedWord)
    /\ \A k \in 1..Len(GeneratedWord) : Lower(s[k]) = GeneratedWord[k]

(***************************************************************************)
(* generative_model.py: fix_sentence                                       *)
(***************************************************************************)
\* A variant of the if/elif chain in which "formal" selects the neutral template.
task_prompt_formal_as_neutral(t) ==
    IF t = "grammar" THEN GrammarTemplate
    ELSE IF t = "coherent" THEN CoherentTemplate
    ELSE IF t = "simpler" THEN SimplerTemplate
    ELSE IF t = "paraphrase" THEN ParaphraseTemplate
    ELSE IF t = "formal" THEN NeutralTemplate
    ELSE IF t = "neutral" THEN NeutralTemplate
    ELSE GrammarTemplate

\* The instruction template of a task (the if/elif chain).
task_prompt(t) ==
    IF t = "grammar" THEN GrammarTemplate
    ELSE IF t = "coherent" THEN CoherentTemplate
    ELSE IF t = "simpler" THEN SimplerTemplate
    ELSE IF t = "paraphrase" THEN ParaphraseTemplate
    ELSE IF t = "formal" THEN FormalTemplate
    ELSE IF t = "neutral" THEN NeutralTemplate
    ELSE GrammarTemplate

\* A variant of the prompt list that leaves the empty fragments out.
build_prompts_skipping_empty(prompt, input_text_list) ==
    LET kept == SelectSeq(input_text_list, LAMBDA sentence : sentence # <<>>)
    IN  [i \in 1..Len(kept) |-> str_format(prompt, kept[i])]

\* prompts = [prompt.format(text=sentence) for sentence in input_text_list]
build_prompts(prompt, input_text_list) ==
    [i \in 1..Len(input_text_list) |-> str_format(prompt, input_text_list[i])]

\* The generation settings of fix_sentence. The tokenizer's end-of-sequence id is
\* the token "eos"; top_p is kept as the literal of the source.
fix_setting(decoding_strategy, max_length, low_memory_setting) ==
    LET setting ==
            [max_length   |-> max_length,
             pad_token_id |-> "eos",
             eos_token_id |-> "eos",
             low_memory   |-> low_memory_setting]
    IN  IF decoding_strategy = "stochastic" \/ decoding_strategy = "s"
        THEN setting @@ [do_sample |-> TRUE, top_p |-> "0.95"]
        ELSE setting @@ [do_sample |-> FALSE, num_beams |-> 1]

\* What the coedit model and its tokenizer can decode for one prompt: nothing, the
\* bare word "generated", or an ordinary sentence.
T5Decoded == {<<>>, GeneratedWord, OutOk}

\* model.generate on the batch, then batch_decode: one decoded text per prompt.
T5Generate(prompts) == [1..Len(prompts) -> T5Decoded]

\* fix_sentence returning, given what the model decoded: the record of the call
\* (arguments, locals, return value).
fix_sentence(t, input_text, decoding_strategy, max_length, dev, low_memory_setting, generated_texts) ==
    LET prompt          == task_prompt(t)
        input_text_list == re_split(input_text)
        prompts         == build_prompts(prompt, input_text_list)
    IN  [task               |-> t,
         input_text         |-> input_text,
         decoding_strategy  |-> decoding_strategy,
         device             |-> dev,
         prompt             |-> prompt,
         input_text_list    |-> input_text_list,
         prompts            |-> prompts,
         setting            |-> fix_setting(decoding_strategy, max_length,
                                            low_memory_setting),
         generated_texts    |-> generated_texts,
         exception          |-> NoException,
         result             |-> GeneratedMarker \o str_join(<<" ">>, generated_texts)]

\* fix_sentence when loading the model or generating raises: nothing is caught, the
\* exception leaves the function and there is no return value.
fix_sentence_raises(t, input_text, decoding_strategy, max_length, dev, low_memory_setting) ==
    [task               |-> t,
     input_text         |-> input_text,
     decoding_strategy  |-> decoding_strategy,
     device             |-> dev,
     exception          |-> "ProviderError"]

(***************************************************************************)
(* generative_model.py: predict_suggestions                                *)
(***************************************************************************)
\* prompt = f"Complete the sentences keeping the context intact: {input_text}"
suggest_prompt(input_text) == SuggestInstruction \o input_text

\* A variant of the settings with one beam for every non-sampling strategy, as in
\* fix_sentence.
suggest_setting_single_beam(tokenized_len, n, qty, decoding_strategy, low_memory_setting) ==
    LET setting ==
            [max_length           |-> tokenized_len + qty,
             num_return_sequences |-> n,
             no_repeat_ngram_size |-> 2,
             pad_token_id         |-> "eos",
             eos_token_id         |-> "eos",
             low_memory           |-> low_memory_setting]
    IN  IF decoding_strategy = "stochastic" \/ decoding_strategy = "s"
        THEN setting @@ [do_sample |-> TRUE, top_p |-> "0.95"]
        ELSE setting @@ [do_sample |-> FALSE, num_beams |-> 1]

\* A variant of the settings that asks for one sequence and one beam more than
\* num_token_suggestions.
suggest_setting_one_more(tokenized_len, n, qty, decoding_strategy, low_memory_setting) ==
    LET setting ==
            [max_length           |-> tokenized_len + qty,
             num_return_sequences |-> n + 1,
             no_repeat_ngram_size |-> 2,
             pad_token_id         |-> "eos",
             eos_token_id         |-> "eos",
             low_memory           |-> low_memory_setting]
    IN  IF decoding_strategy = "stochastic" \/ decoding_strategy = "s"
        THEN setting @@ [do_sample |-> TRUE, top_p |-> "0.95"]
        ELSE setting @@ [do_sample |-> FALSE, num_beams |-> n + 1]

\* The generation settings of predict_suggestions; tokenized_len is
\* len(tokenized[0]).
suggest_setting(tokenized_len, n, qty, decoding_strategy, low_memory_setting) ==
    LET setting ==
            [max_length           |-> tokenized_len + qty,
             num_return_sequences |-> n,
             no_repeat_ngram_size |-> 2,
             pad_token_id         |-> "eos",
             eos_token_id         |-> "eos",
             low_memory           |-> low_memory_setting]
    IN  IF decoding_strategy = "stochastic" \/ decoding_strategy = "s"
        THEN setting @@ [do_sample |-> TRUE, top_p |-> "0.95"]
        ELSE setting @@ [do_sample |-> FALSE, num_beams |-> n]

\* len(tokenized[0]): the GPT-2 tokenizer's count for the prompt.
MaxPromptTokens == 2

PromptTokenCounts == 1..MaxPromptTokens

\* What GPT-2 and its tokenizer can decode for one returned sequence: the prompt
\* with nothing new, with a word, or with a newline and the prompt echoed once
\* more.
GPT2Decoded(prompt) ==
    {prompt, prompt \o SuffixA, prompt \o <<"\n">> \o prompt}

\* model.generate, then batch_decode: as many decoded texts as the setting requests.
\* final_outputs is read once, as the iterable of a set comprehension, so a batch
\* is kept as the set of its distinct texts: at least one, and no more than the
\* sequences returned.
GPT2Generate(prompt, setting) ==
    {batch \in SUBSET GPT2Decoded(prompt) :
        /\ batch # {}
        /\ Cardinality(batch) <= setting.num_return_sequences}

\* list(a_set): the elements once each, in an order the program does not choose.
ListsOfSet(S) == {l \in [1..Cardinality(S) -> S] : Range(l) = S}

\* {text.replace(prompt, "") for text in final_outputs}
strip_prompt(final_outputs, prompt) ==
    {str_replace(t, prompt, <<>>) : t \in final_outputs}

\* list.remove(x): the first x is removed, or ValueError is raised.
list_remove(list, x) ==
    IF x \in Range(list)
    THEN LET at == CHOOSE i \in 1..Len(list) :
                       list[i] = x /\ \A j \in 1..(i - 1) : list[j] # x
         IN  [raised |-> FALSE,
              list   |-> SubSeq(list, 1, at - 1) \o SubSeq(list, at + 1, Len(list))]
    ELSE [raised |-> TRUE, list |-> list]

\* A variant: final_tokens.remove("") without the try, so that the ValueError
\* leaves the function.
remove_empty_uncaught(final_tokens) == list_remove(final_tokens, <<>>)

\* try: final_tokens.remove("")  except ValueError: pass
remove_empty(final_tokens) ==
    [raised |-> FALSE, list |-> list_remove(final_tokens, <<>>).list]

\* predict_suggestions returning, given the tokenizer's count, what the model
\* decoded and the order list(set) produced: the record of the call.
predict_suggestions(input_text, n, qty, decoding_strategy, dev, low_memory_setting, tokenized_len, final_tokens) ==
    LET removed == remove_empty(final_tokens)
    IN  [input_text            |-> input_text,
         num_token_suggestions |-> n,
         token_suggestion_qty  |-> qty,
         decoding_strategy     |-> decoding_strategy,
         device                |-> dev,
         setting               |-> suggest_setting(tokenized_len, n, qty,
                                                   decoding_strategy,
                                                   low_memory_setting),
         final_tokens          |-> final_tokens,
         exception             |-> IF removed.raised THEN "ValueError" ELSE NoException,
         result                |-> removed.list]

\* predict_suggestions when loading the model or generating raises.
predict_suggestions_raises(input_text, n, qty, decoding_strategy, dev) ==
    [input_text            |-> input_text,
     num_token_suggestions |-> n,
     token_suggestion_qty  |-> qty,
     decoding_strategy     |-> decoding_strategy,
     device                |-> dev,
     exception             |-> "ProviderError"]

\* Every way a predict_suggestions call can end.
predict_suggestions_calls(input_text, n, qty, decoding_strategy, dev, low_memory_setting) ==
    LET prompt == suggest_prompt(input_text)
    IN  {predict_suggestions_raises(input_text, n, qty, decoding_strategy, dev)}
        \cup
        UNION {
          UNION {
            {predict_suggestions(input_text, n, qty, decoding_strategy, dev,
                                 low_memory_setting, tokenized_len, final_tokens) :
               final_tokens \in ListsOfSet(strip_prompt(final_outputs, prompt))} :
            final_outputs \in
               GPT2Generate(prompt, suggest_setting(tokenized_len, n, qty,
                                                    decoding_strategy,
                                                    low_memory_setting))} :
          tokenized_len \in PromptTokenCounts}

\* Every way a fix_sentence call can end.
fix_sentence_calls(t, input_text, decoding_strategy, max_length, dev, low_memory_setting) ==
    {fix_sentence_raises(t, input_text, decoding_strategy, max_length, dev,
                         low_memory_setting)}
    \cup
    {fix_sentence(t, input_text, decoding_strategy, max_length, dev,
                  low_memory_setting, generated_texts) :
       generated_texts \in
           T5Generate(build_prompts(task_prompt(t), re_split(input_text)))}

(***************************************************************************)
(* app.py: the widgets' values                                             *)
(***************************************************************************)
TaskOptions == {"paraphrase", "coherent", "simpler", "grammar", "formal", "neutral"}

DecodingOptions == {"stochastic", "greedy"}

MaxLengthMin == 50

MaxLengthMax == 500

MaxLengthDefault == 200

NumSuggestionsMin == 1

NumSuggestionsMax == 10

NumSuggestionsDefault == 5

QtyMin == 1

QtyMax == 10

QtyDefault == 1

\* Bounds of the model: the runs of main in a session, and the slider positions tried.
MaxReloads == 3

MaxNumSuggestions == 1

MaxQty == 2

MaxLengthChoices ==
    {l \in MaxLengthMin..MaxLengthMax : l \in {MaxLengthMin, MaxLengthDefault}}

NumSuggestionsChoices ==
    {NumSuggestionsDefault}
    \cup {n \in NumSuggestionsMin..NumSuggestionsMax : n <= MaxNumSuggestions}

QtyChoices == {q \in QtyMin..QtyMax : q <= MaxQty}

\* Tasks the user selects, among the options of the selectbox.
UserTasks == {"paraphrase", "grammar"}

\* Texts the user types into the text area.
UserTexts == {TextSchool, TextABC}

(***************************************************************************)
(* app.py: the callbacks                                                   *)
(***************************************************************************)
\* give_suggestions(status): st.session_state.suggest_token = status
give_suggestions(status) == suggest_token' = status

\* update_text(processed_text): the text is replaced, then give_suggestions()
update_text(new_text) ==
    /\ text' = new_text
    /\ give_suggestions(TRUE)

\* A widget event: its callback has run and a rerun of the script is due. The
\* calls recorded from now on are those of that run.
Rerun(widget) ==
    /\ pc = "idle"
    /\ site_reloads < MaxReloads
    /\ pc' = "rerun"
    /\ event' = widget
    /\ fixCall' = None
    /\ sugCall' = None
    /\ UNCHANGED <<device, site_reloads, last_suggestions, page_vars, suggested_for>>

\* st.button("Transform") returns True only in the run its click triggered.
transform_clicked == event = "Transform"

\* A variant in which the transformation widgets are rendered on every device.
transform_offered_everywhere(dev) == dev \in {"cuda", "cpu"}

\* The transformation widgets are rendered only with an accelerator (app.py 73, 139).
transform_offered(dev) == dev = "cuda"

(***************************************************************************)
(* app.py: the widget events                                               *)
(***************************************************************************)
\* The text area changes: on_change=give_suggestions
EditText ==
    /\ Rerun("text_area")
    /\ \E t \in UserTexts : t # text /\ text' = t
    /\ give_suggestions(TRUE)
    /\ UNCHANGED widget_vars

\* "Task": on_change=give_suggestions, args=(False,)
SelectTask ==
    /\ Rerun("Task")
    /\ transform_offered(device)
    /\ \E t \in UserTasks : t # task /\ task' = t
    /\ give_suggestions(FALSE)
    /\ UNCHANGED <<text, decoding_strategy_processing, max_length_processing,
                   decoding_strategy_suggestions, num_token_suggestions,
                   token_suggestion_qty>>

\* "Decoding Strategy": on_change=give_suggestions, args=(False,)
SelectDecodingProcessing ==
    /\ Rerun("Decoding Strategy")
    /\ transform_offered(device)
    /\ \E d \in DecodingOptions :
          d # decoding_strategy_processing /\ decoding_strategy_processing' = d
    /\ give_suggestions(FALSE)
    /\ UNCHANGED <<text, task, max_length_processing, decoding_strategy_suggestions,
                   num_token_suggestions, token_suggestion_qty>>

\* "Max sentence length": on_change=give_suggestions, args=(False,)
SlideMaxLength ==
    /\ Rerun("Max sentence length")
    /\ transform_offered(device)
    /\ \E m \in MaxLengthChoices :
          m # max_length_processing /\ max_length_processing' = m
    /\ give_suggestions(FALSE)
    /\ UNCHANGED <<text, task, decoding_strategy_processing,
                   decoding_strategy_suggestions, num_token_suggestions,
                   token_suggestion_qty>>

\* "Decoding strategy for suggestions:": on_change=give_suggestions
SelectDecodingSuggestions ==
    /\ Rerun("Decoding strategy for suggestions")
    /\ \E d \in DecodingOptions :
          d # decoding_strategy_suggestions /\ decoding_strategy_suggestions' = d
    /\ give_suggestions(TRUE)
    /\ UNCHANGED <<text, task, decoding_strategy_processing, max_length_processing,
                   num_token_suggestions, token_suggestion_qty>>

\* "Max token suggestions": on_change=give_suggestions
SlideNumSuggestions ==
    /\ Rerun("Max token suggestions")
    /\ \E n \in NumSuggestionsChoices :
          n # num_token_suggestions /\ num_token_suggestions' = n
    /\ give_suggestions(TRUE)
    /\ UNCHANGED <<text, task, decoding_strategy_processing, max_length_processing,
                   decoding_strategy_suggestions, token_suggestion_qty>>

\* "Words per suggestion": on_change=give_suggestions
SlideQty ==
    /\ Rerun("Words per suggestion")
    /\ \E q \in QtyChoices : q # token_suggestion_qty /\ token_suggestion_qty' = q
    /\ give_suggestions(TRUE)
    /\ UNCHANGED <<text, task, decoding_strategy_processing, max_length_processing,
                   decoding_strategy_suggestions, num_token_suggestions>>

\* st.button("Transform") is clicked: no callback, the next run sees True.
ClickTransform ==
    /\ Rerun("Transform")
    /\ transform_offered(device)
    /\ UNCHANGED <<text, suggest_token, widget_vars>>

\* "Replace text" is clicked: on_click=update_text, args=(processed_text,)
ClickReplace ==
    /\ Rerun("Replace text")
    /\ replace_button # None
    /\ update_text(Value(replace_button))
    /\ UNCHANGED widget_vars

\* A suggestion button is clicked: on_click=update_text,
\* args=(st.session_state.text + suggestion,) as captured when it was rendered.
ClickSuggestion ==
    /\ Rerun("suggestion")
    /\ \E i \in 1..Len(suggestion_buttons) : update_text(suggestion_buttons[i].args)
    /\ UNCHANGED widget_vars

(***************************************************************************)
(* app.py: main, one run of the script                                     *)
(***************************************************************************)
\* What main sees of a call: the arguments it passed, and the return value or the
\* exception.
Observed(call) ==
    [f \in DOMAIN call \ {"prompt", "input_text_list", "prompts", "setting",
                          "generated_texts", "final_tokens"} |-> call[f]]

\* A variant in which a Transform leaves suggest_token as it was.
suggest_token_kept(processed, current) == current

\* Lines 158-161: a non-empty processed text turns the suggestions off.
suggest_token_after_transform(processed, current) ==
    IF processed # <<>> THEN FALSE ELSE current

\* Lines 139-173, the first column: what the run has done when the column ends
\* or when fix_sentence raised.
ColumnOne ==
    IF transform_offered(device) /\ transform_clicked
    THEN {IF call.exception # NoException
          THEN [fix            |-> Some(Observed(call)),
                aborted        |-> TRUE,
                processed_text |-> None,
                suggest_token  |-> suggest_token,
                replace_button |-> None]
          ELSE LET processed == re_sub(call.result)
               IN  [fix            |-> Some(Observed(call)),
                    aborted        |-> FALSE,
                    processed_text |-> Some(processed),
                    suggest_token  |-> suggest_token_after_transform(processed,
                                                                     suggest_token),
                    replace_button |-> IF processed # <<>> THEN Some(processed)
                                       ELSE None] :
          call \in fix_sentence_calls(task, text, decoding_strategy_processing,
                                      max_length_processing, device, TRUE)}
    ELSE {[fix            |-> None,
           aborted        |-> FALSE,
           processed_text |-> None,
           suggest_token  |-> suggest_token,
           replace_button |-> None]}

\* Lines 192-197: the label of a suggestion's button.
button_placeholder(suggestion) ==
    IF suggestion = <<"\n">> THEN <<"<", "n", "e", "w", "l", "i", "n", "e", ">">>
    ELSE IF suggestion = <<" ">> THEN <<"<", "s", "p", "a", "c", "e", ">">>
    ELSE suggestion

\* Lines 190-204: one button per stored suggestion; None and () are falsy.
render_suggestions(suggestions, current_text) ==
    IF suggestions # None /\ Value(suggestions) # <<>>
    THEN [i \in 1..Len(Value(suggestions)) |->
             [label |-> button_placeholder(Value(suggestions)[i]),
              args  |-> current_text \o Value(suggestions)[i]]]
    ELSE <<>>

\* The arguments of a predict_suggestions call that the user chooses: the text
\* and the three suggestion settings.
SuggestArguments(call) ==
    [input_text            |-> call.input_text,
     num_token_suggestions |-> call.num_token_suggestions,
     token_suggestion_qty  |-> call.token_suggestion_qty,
     decoding_strategy     |-> call.decoding_strategy]

\* Lines 175-204, the second column, after a first column that ended as c1.
ColumnTwo(c1) ==
    IF c1.aborted
    THEN {[sug |-> None, aborted |-> TRUE, last_suggestions |-> last_suggestions,
           suggested_for |-> suggested_for, suggestion_buttons |-> <<>>]}
    ELSE IF c1.suggest_token
    THEN {IF call.exception # NoException
          THEN [sug |-> Some(Observed(call)), aborted |-> TRUE,
                last_suggestions |-> last_suggestions,
                suggested_for |-> suggested_for, suggestion_buttons |-> <<>>]
          ELSE [sug |-> Some(Observed(call)), aborted |-> FALSE,
                last_suggestions |-> Some(call.result),
                suggested_for |-> Some(SuggestArguments(call)),
                suggestion_buttons |-> render_suggestions(Some(call.result), text)] :
          call \in predict_suggestions_calls(text, num_token_suggestions,
                                             token_suggestion_qty,
                                             decoding_strategy_suggestions, device,
                                             TRUE)}
    ELSE {[sug |-> None, aborted |-> FALSE, last_suggestions |-> last_suggestions,
           suggested_for |-> suggested_for,
           suggestion_buttons |-> render_suggestions(last_suggestions, text)]}

\* One run of main() from its first line to its last, or to the line where a
\* generation call raised (Streamlit shows the exception and the run is over).
main ==
    /\ pc = "rerun"
    /\ \E c1 \in ColumnOne : \E c2 \in ColumnTwo(c1) :
          /\ site_reloads' = site_reloads + 1
          /\ suggest_token' = c1.suggest_token
          /\ last_suggestions' = c2.last_suggestions
          /\ processed_text' = c1.processed_text
          /\ replace_button' = c1.replace_button
          /\ suggestion_buttons' = c2.suggestion_buttons
          /\ run_status' = IF c2.aborted THEN "aborted" ELSE "completed"
          /\ fixCall' = c1.fix
          /\ sugCall' = c2.sug
          /\ suggested_for' = c2.suggested_for
    /\ pc' = "idle"
    /\ event' = "none"
    /\ UNCHANGED <<device, text, widget_vars>>

(***************************************************************************)
(* The Streamlit session                                                   *)
(***************************************************************************)
Init ==
    /\ device \in {"cuda", "cpu"}
    /\ site_reloads = 0
    /\ text = DefaultText
    /\ suggest_token = TRUE
    /\ last_suggestions = None
    /\ task = "paraphrase"
    /\ decoding_strategy_processing = "stochastic"
    /\ max_length_processing = MaxLengthDefault
    /\ decoding_strategy_suggestions = "stochastic"
    /\ num_token_suggestions = NumSuggestionsDefault
    /\ token_suggestion_qty = QtyDefault
    /\ event = "none"
    /\ replace_button = None
    /\ suggestion_buttons = <<>>
    /\ processed_text = None
    /\ pc = "rerun"
    /\ run_status = "none"
    /\ fixCall = None
    /\ sugCall = None
    /\ suggested_for = None

Next ==
    \/ main
    \/ EditText
    \/ SelectTask
    \/ SelectDecodingProcessing
    \/ SlideMaxLength
    \/ SelectDecodingSuggestions
    \/ SlideNumSuggestions
    \/ SlideQty
    \/ ClickTransform
    \/ ClickReplace
    \/ ClickSuggestion

Spec == Init /\ [][Next]_vars

(***************************************************************************)
(* The two wrappers called directly                                        *)
(***************************************************************************)
FnTasks == TaskOptions \cup {"summarize", ""}

FnDecodings == {"stochastic", "s", "greedy", "g", "beam"}

FnTexts == {<<>>, TextABC, TextDecimal, TextSchool, TextTrailing}

FnSuggestTexts == {<<>>, TextSchool}

FnDevices == {"cpu", "cuda"}

CallFixSentence ==
    /\ fixCall = None /\ sugCall = None
    /\ \E t \in FnTasks, input_text \in FnTexts, d \in FnDecodings,
          m \in {MaxLengthMin, MaxLengthDefault}, dev \in FnDevices, low \in BOOLEAN :
          \E call \in fix_sentence_calls(t, input_text, d, m, dev, low) :
              fixCall' = Some(call)
    /\ sugCall' = None
    /\ UNCHANGED <<device, session_vars, widget_vars, event, page_vars, pc,
                   suggested_for>>

CallPredictSuggestions ==
    /\ fixCall = None /\ sugCall = None
    /\ \E input_text \in FnSuggestTexts, n \in NumSuggestionsChoices, q \in QtyChoices,
          d \in FnDecodings, dev \in FnDevices, low \in BOOLEAN :
          \E call \in predict_suggestions_calls(input_text, n, q, d, dev, low) :
              sugCall' = Some(call)
    /\ fixCall' = None
    /\ UNCHANGED <<device, session_vars, widget_vars, event, page_vars, pc,
                   suggested_for>>

FnNext == CallFixSentence \/ CallPredictSuggestions

FnInit == Init /\ device = "cpu"

FnSpec == FnInit /\ [][FnNext]_vars

(***************************************************************************)
(* The claims                                                              *)
(***************************************************************************)
\* A call that returned: it was made and no exception left it.
Returned(log) == log # None /\ Value(log).exception = NoException

FiveIsANumber ==
    <<"5", " ", "i", "s", " ", "a", " ", "n", "u", "m", "b", "e", "r", ".">>

\* C1: the string SentenceTransform yields for a Transform request (the return
\* value of fix_sentence once the marker strip of app.py 155-157 has run) never
\* begins with "generated" in any case, whatever the model decoded.
C1_NoLeadingGenerated ==
    processed_text # None => ~BeginsWithGenerated(Value(processed_text))

\* C2 as stated: the segmentation of "A. B. C" is A, B, C and the segmentation of
\* "3.5 is a number." is "3", "5 is a number.".
C2_SplitsDecimal ==
    Returned(fixCall) =>
        /\ Value(fixCall).input_text = TextABC =>
               Value(fixCall).input_text_list = <<<<"A">>, <<"B">>, <<"C">>>>
        /\ Value(fixCall).input_text = TextDecimal =>
               Value(fixCall).input_text_list = <<<<"3">>, FiveIsANumber>>

\* C2 amended: the segmentation of "A. B. C" is A, B, C and "3.5 is a number." is
\* one fragment, unsplit: its periods are followed by no whitespace.
C2_KeepsDecimal ==
    Returned(fixCall) =>
        /\ Value(fixCall).input_text = TextABC =>
               Value(fixCall).input_text_list = <<<<"A">>, <<"B">>, <<"C">>>>
        /\ Value(fixCall).input_text = TextDecimal =>
               Value(fixCall).input_text_list = <<TextDecimal>>

C2_Witness ==
    /\ Returned(fixCall)
    /\ Value(fixCall).input_text = TextDecimal
    /\ Len(Value(fixCall).input_text_list) = 1

\* C3: whatever the model decoded, predict_suggestions returns a tuple with no
\* empty string and no string twice, and the removal of an absent empty string
\* raises nothing and leaves the deduplicated list as it was.
C3_NoEmptyNoDuplicate ==
    (sugCall # None /\ Value(sugCall).exception # "ProviderError") =>
        LET call == Value(sugCall)
        IN  /\ call.exception = NoException
            /\ \A i \in 1..Len(call.result) : call.result[i] # <<>>
            /\ \A i, j \in 1..Len(call.result) :
                   call.result[i] = call.result[j] => i = j
            /\ (\A i \in 1..Len(call.final_tokens) : call.final_tokens[i] # <<>>)
                   => call.result = call.final_tokens

C3_Witness ==
    /\ Returned(sugCall)
    /\ \A i \in 1..Len(Value(sugCall).final_tokens) :
           Value(sugCall).final_tokens[i] # <<>>
    /\ Len(Value(sugCall).result) = 2

\* The decoding keys of a setting for a strategy: sampling with top_p 0.95 and no
\* num_beams for "stochastic" and "s", otherwise no sampling, no top_p and the
\* given number of beams.
DecodingAsClaimed(setting, decoding_strategy, beams) ==
    IF decoding_strategy \in {"stochastic", "s"}
    THEN /\ setting.do_sample = TRUE
         /\ "top_p" \in DOMAIN setting
         /\ setting.top_p = "0.95"
         /\ "num_beams" \notin DOMAIN setting
    ELSE /\ setting.do_sample = FALSE
         /\ "top_p" \notin DOMAIN setting
         /\ "num_beams" \in DOMAIN setting
         /\ setting.num_beams = beams

\* C4: both wrappers sample with top_p 0.95 exactly for "stochastic" and "s";
\* for any other strategy fix_sentence uses one beam and predict_suggestions
\* num_token_suggestions beams.
C4_DecodingSetting ==
    /\ Returned(fixCall) =>
           DecodingAsClaimed(Value(fixCall).setting, Value(fixCall).decoding_strategy, 1)
    /\ Returned(sugCall) =>
           DecodingAsClaimed(Value(sugCall).setting, Value(sugCall).decoding_strategy,
                             Value(sugCall).num_token_suggestions)

C4_Witness ==
    /\ Returned(sugCall)
    /\ Value(sugCall).decoding_strategy = "g"
    /\ Value(sugCall).num_token_suggestions = NumSuggestionsDefault
    /\ Value(sugCall).setting.num_beams = NumSuggestionsDefault

\* C5: each of the six tasks selects its own template, and any other task the
\* grammar template, the call returning all the same.
C5_TaskTemplate ==
    fixCall # None =>
        LET call == Value(fixCall)
        IN  /\ call.exception # "ProviderError" => call.exception = NoException
            /\ Returned(fixCall) =>
                /\ call.task = "grammar" => call.prompt = GrammarTemplate
                /\ call.task = "coherent" => call.prompt = CoherentTemplate
                /\ call.task = "simpler" => call.prompt = SimplerTemplate
                /\ call.task = "paraphrase" => call.prompt = ParaphraseTemplate
                /\ call.task = "formal" => call.prompt = FormalTemplate
                /\ call.task = "neutral" => call.prompt = NeutralTemplate
                /\ call.task \notin TaskOptions => call.prompt = GrammarTemplate

C5_Witness ==
    /\ Returned(fixCall)
    /\ Value(fixCall).task = "summarize"
    /\ Value(fixCall).prompt = GrammarTemplate

\* C6: without an accelerator no run of main ever calls fix_sentence, and every
\* run that reaches the suggestion column with suggest_token set calls
\* predict_suggestions.
C6_CpuNeverTransforms ==
    device = "cpu" =>
        /\ fixCall = None
        /\ (pc = "idle" /\ suggest_token) => sugCall # None

C6_Witness ==
    /\ device = "cpu"
    /\ pc = "idle"
    /\ site_reloads = 2
    /\ Returned(sugCall)

\* C7: a greedy predict_suggestions call for N suggestions asks for N beams and N
\* returned sequences, and returns at most N strings.
C7_AtMostN ==
    (Returned(sugCall) /\ Value(sugCall).decoding_strategy \notin {"stochastic", "s"}) =>
        LET call == Value(sugCall)
        IN  /\ call.setting.num_beams = call.num_token_suggestions
            /\ call.setting.num_return_sequences = call.num_token_suggestions
            /\ Len(call.result) <= call.num_token_suggestions

C7_Witness ==
    /\ Returned(sugCall)
    /\ Value(sugCall).decoding_strategy = "greedy"
    /\ Value(sugCall).num_token_suggestions = NumSuggestionsMin
    /\ Len(Value(sugCall).result) = NumSuggestionsMin

\* The template up to its {text} field.
Instruction(template) == SubSeq(template, 1, Len(template) - Len(TextField))

RECURSIVE JoinedLen(_, _)
\* The length of the first k texts joined, with the space after each.
JoinedLen(texts, k) ==
    IF k = 0 THEN 0 ELSE JoinedLen(texts, k - 1) + Len(texts[k]) + 1

\* C8: one prompt per fragment, in the fragments' order and empty fragments
\* included, one decoded text per prompt, and the result is the marker followed
\* by the decoded texts in that order with one space between neighbours.
C8_OrderPreserved ==
    Returned(fixCall) =>
        LET call  == Value(fixCall)
            n     == Len(call.input_text_list)
            start == [i \in 1..n |->
                         Len(GeneratedMarker) + JoinedLen(call.generated_texts, i - 1)]
        IN  /\ Len(call.prompts) = n
            /\ Len(call.generated_texts) = n
            /\ \A i \in 1..n :
                   call.prompts[i] = Instruction(call.prompt) \o call.input_text_list[i]
            /\ SubSeq(call.result, 1, Len(GeneratedMarker)) = GeneratedMarker
            /\ \A i \in 1..n :
                   /\ SubSeq(call.result, start[i] + 1,
                             start[i] + Len(call.generated_texts[i]))
                          = call.generated_texts[i]
                   /\ i < n => call.result[start[i] + Len(call.generated_texts[i]) + 1] = " "
            /\ Len(call.result) = Len(GeneratedMarker) + JoinedLen(call.generated_texts, n) - 1

C8_Witness ==
    /\ Returned(fixCall)
    /\ Value(fixCall).input_text = TextTrailing
    /\ Len(Value(fixCall).prompts) = 2
    /\ Value(fixCall).input_text_list[2] = <<>>
    /\ Value(fixCall).generated_texts = <<OutOk, GeneratedWord>>

\* C9: at the end of every completed run of main the stored suggestions, when
\* there are any, were returned by a predict_suggestions call on the text and the
\* suggestion settings as they are now.
C9_SuggestionsCurrent ==
    (pc = "idle" /\ run_status = "completed" /\ last_suggestions # None) =>
        suggested_for =
            Some([input_text            |-> text,
                  num_token_suggestions |-> num_token_suggestions,
                  token_suggestion_qty  |-> token_suggestion_qty,
                  decoding_strategy     |-> decoding_strategy_suggestions])

\* The step of main that answers the event of a widget: only main takes pc from
\* "rerun" to "idle".
RunAnswering(widget) == pc = "rerun" /\ pc' = "idle" /\ event = widget

\* The step of a widget's event: only Rerun(widget) takes pc from "idle" to
\* "rerun" with that event pending.
Clicked(widget) == pc = "idle" /\ pc' = "rerun" /\ event' = widget

\* C10: a run answering a Transform click that yields a non-empty processed text
\* leaves suggest_token False, calls predict_suggestions not at all and shows the
\* suggestions stored before; a click on "Replace text" then makes that processed
\* text the text and sets suggest_token; and the run answering that click calls
\* predict_suggestions on the replaced text.
C10_TransformThenReplace ==
    [][/\ (RunAnswering("Transform") /\ processed_text' # None
                /\ processed_text' # Some(<<>>)) =>
              /\ suggest_token' = FALSE
              /\ sugCall' = None
              /\ last_suggestions' = last_suggestions
              /\ suggestion_buttons' = render_suggestions(last_suggestions, text)
       /\ Clicked("Replace text") =>
              /\ processed_text # None
              /\ text' = Value(processed_text)
              /\ suggest_token' = TRUE
       /\ RunAnswering("Replace text") =>
              /\ sugCall' # None
              /\ Value(sugCall').input_text = text]_vars

C10_Witness ==
    /\ pc = "idle"
    /\ text = GeneratedWord
    /\ sugCall # None
    /\ Value(sugCall).input_text = GeneratedWord
    /\ suggest_token
=============================================================================
